---- MODULE Spec2Model ----
(***************************************************************************)
(* The trip-planning backend of src/backend/main.py: the request handlers  *)
(* of the FastAPI application and the process-wide store `db` they call.   *)
(* The handlers are translated from main.py.  The store (InfoManagerDict)  *)
(* is not part of the available sources; its operations (db_...) follow    *)
(* the contract of the specification, section 4.1.                         *)
(***************************************************************************)
EXTENDS Naturals, Integers, Sequences, FiniteSets

VARIABLES data, call

vars == <<data, call>>

----------------------------------------------------------------------------
(* Bounds of the model *)

\* users, activity groups, places and daily-plan references the store holds,
\* all together, the place of an add_place request in flight counted with them
MaxSize == 4

----------------------------------------------------------------------------
(* Input domains *)

\* the identifiers the uuid generator of the store issues, in this order
UuidPool == <<"u1", "u2">>
\* the user ids a client can send
UserIds == {UuidPool[i] : i \in DOMAIN UuidPool}
\* the geocoded coordinates of the addresses a client submits
Homes == {<<37, 122>>, <<40, 74>>}
GroupNames == {"Food", "Museums"}
DailyPlanIds == {"d1"}

\* names are sequences of characters, so that lower() is a real conversion
Chars == {"P", "p", "A", "a", "Z", "z"}
LowerChar(c) == CASE c = "P" -> "p" [] c = "A" -> "a" [] c = "Z" -> "z" [] OTHER -> c

\* str.lower()
lower(s) == [i \in DOMAIN s |-> LowerChar(s[i])]

\* the places the gateway can resolve a free-text name to
Catalog ==
    { [name |-> <<"P", "a">>, ID |-> "p1", latitude |-> 1, longitude |-> 1],
      [name |-> <<"p", "A">>, ID |-> "p2", latitude |-> 2, longitude |-> 2] }

\* place ids a client can send
PlaceIds == {p.ID : p \in Catalog}
\* names a client can ask for
QueryNames == {<<"p", "a">>, <<"P", "a">>, <<"P", "A">>, <<"z", "a">>}

\* gmaps.places(...)['results']: nothing, or a first result
PlaceResults == {<<>>} \cup {<<p>> : p \in Catalog}
\* gmaps.geocode(address): nothing, or a first result
GeocodeResults == {<<>>} \cup {<<h>> : h \in Homes}

----------------------------------------------------------------------------
(* Insertion-ordered dictionaries (Python dict): sequences of entries *)

Keys(d) == {d[i].k : i \in DOMAIN d}
Has(d, k) == \E i \in DOMAIN d : d[i].k = k
Index(d, k) == CHOOSE i \in DOMAIN d : d[i].k = k
Get(d, k) == d[Index(d, k)].v
Put(d, k, v) ==
    IF Has(d, k) THEN [d EXCEPT ![Index(d, k)] = [k |-> k, v |-> v]]
    ELSE Append(d, [k |-> k, v |-> v])
Del(d, k) == SelectSeq(d, LAMBDA e : e.k # k)

RECURSIVE Flatten(_)
\* the values of a dictionary of sequences, concatenated in insertion order
Flatten(d) == IF d = <<>> THEN <<>> ELSE Head(d).v \o Flatten(Tail(d))

\* the least of a set of positions, 0 when the set is empty
First(positions) ==
    IF positions = {} THEN 0
    ELSE CHOOSE i \in positions : \A j \in positions : i <= j

\* s without its element at position i
RemoveAt(s, i) == SubSeq(s, 1, i - 1) \o SubSeq(s, i + 1, Len(s))

\* s without the first of its elements at `positions` (all of s when none)
RemoveFirst(s, positions) ==
    IF First(positions) = 0 THEN s ELSE RemoveAt(s, First(positions))

----------------------------------------------------------------------------
(* The store: db = InfoManagerDict()  (specification, section 4.1)         *)
(* Every operation yields [raised, data, value]: the error it raises       *)
(* ("-" when none), the store after it, and what it returns.               *)

NoError == "-"
NotFoundUser == "NotFound(User)"
NotFoundGroup == "NotFound(Group)"
NotFoundPlan == "NotFound(Plan)"

Raise(d, err) == [raised |-> err, data |-> d, value |-> <<>>]
Return(d, v) == [raised |-> NoError, data |-> d, value |-> v]

\* the user record of u with one field replaced
WithGroups(d, u, groups) == Put(d, u, [Get(d, u) EXCEPT !.activity_groups = groups])
WithPlans(d, u, plans) == Put(d, u, [Get(d, u) EXCEPT !.daily_plans = plans])

\* createUser: a fresh identifier, a user with that home and empty collections
db_add_user(d, lat, lon, uuid) ==
    Return(Put(d, uuid, [home |-> <<lat, lon>>, activity_groups |-> <<>>,
                         daily_plans |-> <<>>]),
           uuid)

\* what uuid generation yields in store d: the next identifier never issued
\* before (users are never deleted, so the issued ones are the keys of d)
FreshIds(d) ==
    {UuidPool[i] : i \in {j \in DOMAIN UuidPool :
                             /\ UuidPool[j] \notin Keys(d)
                             /\ \A k \in 1..(j - 1) : UuidPool[k] \in Keys(d)}}

db_get_user(d, u) ==
    IF ~Has(d, u) THEN Raise(d, NotFoundUser) ELSE Return(d, Get(d, u))

db_activity_group_exists(d, u, g) ==
    IF ~Has(d, u) THEN Raise(d, NotFoundUser)
    ELSE Return(d, Has(Get(d, u).activity_groups, g))

\* an existing name is overwritten by an empty group (no duplicate guard)
db_add_activity_group(d, u, g) ==
    IF ~Has(d, u) THEN Raise(d, NotFoundUser)
    ELSE Return(WithGroups(d, u, Put(Get(d, u).activity_groups, g, <<>>)), <<>>)

\* silently succeeds when the group does not exist
db_delete_activity_group(d, u, g) ==
    IF ~Has(d, u) THEN Raise(d, NotFoundUser)
    ELSE Return(WithGroups(d, u, Del(Get(d, u).activity_groups, g)), <<>>)

db_get_activity_group(d, u, g) ==
    IF ~Has(d, u) THEN Raise(d, NotFoundUser)
    ELSE IF ~Has(Get(d, u).activity_groups, g) THEN Raise(d, NotFoundGroup)
    ELSE Return(d, Get(Get(d, u).activity_groups, g))

\* appends a new Place to the group
db_add_place(d, g, u, name, place_id, lat, lon) ==
    IF ~Has(d, u) THEN Raise(d, NotFoundUser)
    ELSE IF ~Has(Get(d, u).activity_groups, g) THEN Raise(d, NotFoundGroup)
    ELSE LET groups == Get(d, u).activity_groups
             place == [name |-> name, ID |-> place_id,
                       latitude |-> lat, longitude |-> lon]
         IN Return(WithGroups(d, u, Put(groups, g, Append(Get(groups, g), place))),
                   <<>>)

\* the flattened union of the places of all of the user's groups
db_get_places(d, u) ==
    IF ~Has(d, u) THEN Raise(d, NotFoundUser)
    ELSE Return(d, Flatten(Get(d, u).activity_groups))

\* removes the first Place with matching id from that group; no-op if absent
db_delete_place(d, u, g, place_id) ==
    IF ~Has(d, u) THEN Raise(d, NotFoundUser)
    ELSE IF ~Has(Get(d, u).activity_groups, g) THEN Raise(d, NotFoundGroup)
    ELSE LET groups == Get(d, u).activity_groups
         IN Return(WithGroups(d, u,
                       Put(groups, g,
                           RemoveFirst(Get(groups, g),
                               {i \in DOMAIN Get(groups, g) :
                                   Get(groups, g)[i].ID = place_id}))),
                   <<>>)

\* creates the plan lazily, then appends the reference (duplicates allowed)
db_add_to_daily_plan(d, u, plan, place_id) ==
    IF ~Has(d, u) THEN Raise(d, NotFoundUser)
    ELSE LET plans == Get(d, u).daily_plans
             old == IF Has(plans, plan) THEN Get(plans, plan) ELSE <<>>
         IN Return(WithPlans(d, u, Put(plans, plan, Append(old, place_id))), <<>>)

\* removes the first occurrence of the reference across the user's plans
db_remove_from_daily_plan(d, u, place_id) ==
    IF ~Has(d, u) THEN Raise(d, NotFoundUser)
    ELSE LET plans == Get(d, u).daily_plans
             at == First({n \in DOMAIN plans :
                             \E i \in DOMAIN plans[n].v : plans[n].v[i] = place_id})
         IN IF at = 0 THEN Return(d, <<>>)
            ELSE Return(WithPlans(d, u,
                            [plans EXCEPT ![at].v =
                                RemoveFirst(plans[at].v,
                                    {i \in DOMAIN plans[at].v :
                                        plans[at].v[i] = place_id})]),
                        <<>>)

RECURSIVE Resolve(_, _)
\* each reference joined with the first place of that id among `places`;
\* a reference no place answers to yields nothing
Resolve(refs, places) ==
    IF refs = <<>> THEN <<>>
    ELSE LET at == First({i \in DOMAIN places : places[i].ID = Head(refs)})
         IN (IF at = 0 THEN <<>> ELSE <<places[at]>>) \o Resolve(Tail(refs), places)

db_get_daily_plan(d, u, plan) ==
    IF ~Has(d, u) THEN Raise(d, NotFoundUser)
    ELSE IF ~Has(Get(d, u).daily_plans, plan) THEN Raise(d, NotFoundPlan)
    ELSE Return(d, Resolve(Get(Get(d, u).daily_plans, plan),
                           Flatten(Get(d, u).activity_groups)))

----------------------------------------------------------------------------
(* Responses of the request handlers.  A handler yields [data, status,     *)
(* detail, raised, body]: the store after it and the response the client   *)
(* gets.  An exception of the store that the handler does not catch ends   *)
(* the request with status 500; `raised` keeps which exception it was.     *)

NoArg == "-"

OK(d, body) ==
    [data |-> d, status |-> 200, detail |-> "success", raised |-> NoError,
     body |-> body]

HTTPException(d, status_code, detail) ==
    [data |-> d, status |-> status_code, detail |-> detail, raised |-> NoError,
     body |-> <<>>]

Unhandled(d, err) ==
    [data |-> d, status |-> 500, detail |-> "Internal Server Error",
     raised |-> err, body |-> <<>>]

UserNotFound == "User not found"
GroupNotFound == "Activity group not found"
PlaceNotFound == "Place not found"
PlaceNotFoundForUser == "Place not found for this user"

\* Place(name=..., ID=..., latitude=..., longitude=...)
Place(p) ==
    [name |-> p.name, ID |-> p.ID, latitude |-> p.latitude,
     longitude |-> p.longitude]

Places(ps) == [i \in DOMAIN ps |-> Place(ps[i])]

----------------------------------------------------------------------------
(* The request handlers of main.py, each as the function from the store    *)
(* and the request to the store after it and the response.                 *)

\* add_place without the check of lines 41-42: the store is called for a
\* group that may not exist
add_place_no_group_check(d, user_id, activity_group, place_result) ==
    LET user == db_get_user(d, user_id)
    IN IF user.raised # NoError THEN HTTPException(d, 404, UserNotFound)
       ELSE IF place_result = <<>> THEN HTTPException(d, 404, PlaceNotFound)
       ELSE LET place_info == place_result[1]
                added == db_add_place(d, activity_group, user_id,
                                      place_info.name, place_info.ID,
                                      place_info.latitude, place_info.longitude)
            IN IF added.raised # NoError THEN Unhandled(d, added.raised)
               ELSE OK(added.data, <<Place(place_info)>>)

\* POST /place; place_result is gmaps.places(...)['results']
add_place(d, user_id, activity_group, place_result) ==
    LET user == db_get_user(d, user_id)
        exists == db_activity_group_exists(d, user_id, activity_group)
    IN IF user.raised # NoError THEN HTTPException(d, 404, UserNotFound)
       ELSE IF exists.raised # NoError THEN Unhandled(d, exists.raised)
       ELSE IF ~exists.value THEN HTTPException(d, 404, GroupNotFound)
       ELSE IF place_result = <<>> THEN HTTPException(d, 404, PlaceNotFound)
       ELSE LET place_info == place_result[1]
                added == db_add_place(d, activity_group, user_id,
                                      place_info.name, place_info.ID,
                                      place_info.latitude, place_info.longitude)
            IN IF added.raised # NoError THEN Unhandled(d, added.raised)
               ELSE OK(added.data, <<Place(place_info)>>)

\* get_place comparing the names as they are spelled, without lower()
get_place_case_sensitive(d, user_id, place_name) ==
    IF ~Has(d, user_id) THEN HTTPException(d, 404, UserNotFound)
    ELSE LET user_places == db_get_places(d, user_id)
         IN IF user_places.raised # NoError THEN Unhandled(d, user_places.raised)
            ELSE LET at == First({i \in DOMAIN user_places.value :
                                     user_places.value[i].name = place_name})
                 IN IF at = 0 THEN HTTPException(d, 404, PlaceNotFoundForUser)
                    ELSE OK(d, <<Place(user_places.value[at])>>)

\* GET /place
get_place(d, user_id, place_name) ==
    IF ~Has(d, user_id) THEN HTTPException(d, 404, UserNotFound)
    ELSE LET user_places == db_get_places(d, user_id)
         IN IF user_places.raised # NoError THEN Unhandled(d, user_places.raised)
            ELSE LET at == First({i \in DOMAIN user_places.value :
                                     lower(user_places.value[i].name)
                                        = lower(place_name)})
                 IN IF at = 0 THEN HTTPException(d, 404, PlaceNotFoundForUser)
                    ELSE OK(d, <<Place(user_places.value[at])>>)

\* DELETE /place
delete_place(d, user_id, activity_group, place_id) ==
    IF ~Has(d, user_id) THEN HTTPException(d, 404, UserNotFound)
    ELSE LET exists == db_activity_group_exists(d, user_id, activity_group)
             deleted == db_delete_place(d, user_id, activity_group, place_id)
         IN IF exists.raised # NoError THEN Unhandled(d, exists.raised)
            ELSE IF ~exists.value THEN HTTPException(d, 404, GroupNotFound)
            ELSE IF deleted.raised # NoError THEN Unhandled(d, deleted.raised)
            ELSE OK(deleted.data, <<>>)

\* POST /activity-group
add_activity_group(d, user_id, activity_group) ==
    IF ~Has(d, user_id) THEN HTTPException(d, 404, UserNotFound)
    ELSE LET added == db_add_activity_group(d, user_id, activity_group)
         IN IF added.raised # NoError THEN Unhandled(d, added.raised)
            ELSE OK(added.data, <<>>)

\* GET /activity-group
get_activity_group(d, user_id, activity_group) ==
    IF ~Has(d, user_id) THEN HTTPException(d, 404, UserNotFound)
    ELSE LET places == db_get_activity_group(d, user_id, activity_group)
         IN IF places.raised # NoError THEN Unhandled(d, places.raised)
            ELSE OK(d, Places(places.value))

\* delete_activity_group calling db.add_activity_group, as the handler it was
\* copied from does
delete_activity_group_calls_add(d, user_id, activity_group) ==
    IF ~Has(d, user_id) THEN HTTPException(d, 404, UserNotFound)
    ELSE LET added == db_add_activity_group(d, user_id, activity_group)
         IN IF added.raised # NoError THEN Unhandled(d, added.raised)
            ELSE OK(added.data, <<>>)

\* DELETE /activity-group
delete_activity_group(d, user_id, activity_group) ==
    IF ~Has(d, user_id) THEN HTTPException(d, 404, UserNotFound)
    ELSE LET deleted == db_delete_activity_group(d, user_id, activity_group)
         IN IF deleted.raised # NoError THEN Unhandled(d, deleted.raised)
            ELSE OK(deleted.data, <<>>)

\* set_homebase passing longitude and latitude in the wrong order
set_homebase_swapped(d, geocode_result, uuid) ==
    IF geocode_result = <<>> THEN Unhandled(d, "IndexError")
    ELSE LET lat == geocode_result[1][1]
             lng == geocode_result[1][2]
             added == db_add_user(d, lng, lat, uuid)
         IN OK(added.data, <<added.value>>)

\* POST /homebase; geocode_result is gmaps.geocode(address), uuid the
\* identifier the store generates
set_homebase(d, geocode_result, uuid) ==
    IF geocode_result = <<>> THEN Unhandled(d, "IndexError")
    ELSE LET lat == geocode_result[1][1]
             lng == geocode_result[1][2]
             added == db_add_user(d, lat, lng, uuid)
         IN OK(added.data, <<added.value>>)

\* GET /route: no check of the user before the store is read
get_route(d, user_id, daily_plan_id) ==
    LET places == db_get_daily_plan(d, user_id, daily_plan_id)
    IN IF places.raised # NoError THEN Unhandled(d, places.raised)
       ELSE OK(d, <<>>)

\* the entry the listing loop appends for the i-th item of db.data.items()
Item(d, i) == [user_id |-> d[i].k, homebase |-> d[i].v.home]

\* GET /users, the loop over db.data.items() run with no request in between
get_users(d) == OK(d, [i \in DOMAIN d |-> Item(d, i)])

\* GET /data/{uuid}: the same listing as GET /users
get_user_data(d) == OK(d, [i \in DOMAIN d |-> Item(d, i)])

\* PUT /place/daily-plan
add_place_to_daily_plan(d, user_id, place_id, daily_plan_id) ==
    IF ~Has(d, user_id) THEN HTTPException(d, 404, UserNotFound)
    ELSE LET added == db_add_to_daily_plan(d, user_id, daily_plan_id, place_id)
         IN IF added.raised # NoError THEN Unhandled(d, added.raised)
            ELSE OK(added.data, <<>>)

\* DELETE /place/daily-plan
remove_place_from_daily_plan(d, user_id, place_id) ==
    IF ~Has(d, user_id) THEN HTTPException(d, 404, UserNotFound)
    ELSE LET removed == db_remove_from_daily_plan(d, user_id, place_id)
         IN IF removed.raised # NoError THEN Unhandled(d, removed.raised)
            ELSE OK(removed.data, <<>>)

\* GET /daily-plan
get_daily_plan(d, user_id, daily_plan_id) ==
    IF ~Has(d, user_id) THEN HTTPException(d, 404, UserNotFound)
    ELSE LET places == db_get_daily_plan(d, user_id, daily_plan_id)
         IN IF places.raised # NoError THEN Unhandled(d, places.raised)
            ELSE OK(d, Places(places.value))

----------------------------------------------------------------------------
(* The state machine.  `data` is db.data.  The handlers are plain `def`    *)
(* functions, which the server runs on a thread pool without any lock:     *)
(* requests interleave between their store accesses.  A call of the store  *)
(* is one step.                                                            *)
(*                                                                         *)
(* add_place and delete_place access the store more than once with a       *)
(* check first and a store call that depends on it later; get_users and    *)
(* get_user_data iterate over db.data themselves, one item per pass.  The  *)
(* request in `call` runs these statement by statement while every other   *)
(* request is served.  The remaining handlers make a user check and then   *)
(* one store call (get_route: the store call alone); no operation removes  *)
(* a user, so the check's answer still holds at the store call and the     *)
(* request takes effect in one step, at its store call.  Requests of the   *)
(* four stepped handlers beside the one in `call` are those that run from  *)
(* first to last statement with no other request in between.               *)

RECURSIVE SumLen(_)
SumLen(d) == IF d = <<>> THEN 0 ELSE Len(Head(d).v) + SumLen(Tail(d))

RECURSIVE Size(_)
\* the users, groups, places and plan references of the store
Size(d) ==
    IF d = <<>> THEN 0
    ELSE 1 + Len(Head(d).v.activity_groups) + SumLen(Head(d).v.activity_groups)
         + SumLen(Head(d).v.daily_plans) + Size(Tail(d))

\* the place an add_place request in flight (`call`) is yet to add
Reserved == IF call.pc \in {"L41", "L45", "L57"} THEN 1 ELSE 0

\* requests that make the store grow arrive only while there is room, for
\* them and for the request in flight
Bounded(d) == Size(d) + Reserved <= MaxSize

\* no request is between its first and its last statement, none has ended
Idle ==
    [pc |-> "idle", handler |-> NoArg, user_id |-> NoArg,
     activity_group |-> NoArg, place_result |-> <<>>, place_id |-> NoArg,
     users |-> <<>>, used |-> 0, status |-> 0, detail |-> NoArg, raised |-> NoError]

\* the locals of a request of `handler` that is about to run line `pc`
Frame(pc, handler, user_id, activity_group, place_result, place_id) ==
    [Idle EXCEPT !.pc = pc, !.handler = handler, !.user_id = user_id,
                 !.activity_group = activity_group,
                 !.place_result = place_result, !.place_id = place_id]

\* a listing request of `handler` about to run the loop body at line `pc`:
\* `users` holds the entries of the items fetched, `used` the size db.data
\* had when the iterator was made
Iterating(pc, handler, users, used) ==
    [Idle EXCEPT !.pc = pc, !.handler = handler, !.users = users,
                 !.used = used]

\* the request of `handler` has ended with response `out`; its locals are gone
Done(handler, out) ==
    [Idle EXCEPT !.pc = "done", !.handler = handler, !.status = out.status,
                 !.detail = out.detail, !.raised = out.raised]

\* a request is served in one step: the store becomes out.data
Serve(out) ==
    /\ Bounded(out.data)
    /\ data' = out.data
    /\ UNCHANGED call

\* lines 36-39: the request arrives; user = db.get_user(user_id)
add_place_L37(user_id, activity_group) ==
    /\ call.pc \in {"idle", "done"}
    /\ Has(data, user_id) => Size(data) < MaxSize
    /\ call' = IF db_get_user(data, user_id).raised # NoError
               THEN Done("add_place", HTTPException(data, 404, UserNotFound))
               ELSE Frame("L41", "add_place", user_id, activity_group,
                          <<>>, NoArg)
    /\ UNCHANGED data

\* lines 41-42: db.activity_group_exists(user_id, activity_group)
add_place_L41 ==
    /\ call.pc = "L41"
    /\ LET exists == db_activity_group_exists(data, call.user_id,
                                              call.activity_group)
       IN call' = IF exists.raised # NoError
                  THEN Done("add_place", Unhandled(data, exists.raised))
                  ELSE IF ~exists.value
                  THEN Done("add_place",
                            HTTPException(data, 404, GroupNotFound))
                  ELSE [call EXCEPT !.pc = "L45"]
    /\ UNCHANGED data

\* lines 45-47: the gateway call; no store access
add_place_L45(place_result) ==
    /\ call.pc = "L45"
    /\ call' = IF place_result = <<>>
               THEN Done("add_place", HTTPException(data, 404, PlaceNotFound))
               ELSE [call EXCEPT !.pc = "L57", !.place_result = place_result]
    /\ UNCHANGED data

\* add_place going on to its return statement whatever db.add_place raised
add_place_L57_swallow ==
    /\ call.pc = "L57"
    /\ LET place_info == call.place_result[1]
           added == db_add_place(data, call.activity_group, call.user_id,
                                 place_info.name, place_info.ID,
                                 place_info.latitude, place_info.longitude)
       IN /\ data' = added.data
          /\ call' = [call EXCEPT !.pc = "L59"]

\* lines 49-57: db.add_place(...); an exception of the store ends the request
add_place_L57 ==
    /\ call.pc = "L57"
    /\ LET place_info == call.place_result[1]
           added == db_add_place(data, call.activity_group, call.user_id,
                                 place_info.name, place_info.ID,
                                 place_info.latitude, place_info.longitude)
       IN IF added.raised # NoError
          THEN /\ call' = Done("add_place", Unhandled(data, added.raised))
               /\ UNCHANGED data
          ELSE /\ data' = added.data
               /\ call' = [call EXCEPT !.pc = "L59"]

\* line 59: return { "place": Place(...) }
add_place_L59 ==
    /\ call.pc = "L59"
    /\ call' = Done("add_place", OK(data, <<Place(call.place_result[1])>>))
    /\ UNCHANGED data

\* lines 82-83: the request arrives; user_id not in db.data
delete_place_L82(user_id, activity_group, place_id) ==
    /\ call.pc \in {"idle", "done"}
    /\ call' = IF ~Has(data, user_id)
               THEN Done("delete_place",
                         HTTPException(data, 404, UserNotFound))
               ELSE Frame("L85", "delete_place", user_id, activity_group,
                          <<>>, place_id)
    /\ UNCHANGED data

\* lines 85-86: db.activity_group_exists(user_id, activity_group)
delete_place_L85 ==
    /\ call.pc = "L85"
    /\ LET exists == db_activity_group_exists(data, call.user_id,
                                              call.activity_group)
       IN call' = IF exists.raised # NoError
                  THEN Done("delete_place", Unhandled(data, exists.raised))
                  ELSE IF ~exists.value
                  THEN Done("delete_place",
                            HTTPException(data, 404, GroupNotFound))
                  ELSE [call EXCEPT !.pc = "L88"]
    /\ UNCHANGED data

\* lines 88-90: db.delete_place(...); return { "message": "success" }
delete_place_L88 ==
    /\ call.pc = "L88"
    /\ LET deleted == db_delete_place(data, call.user_id, call.activity_group,
                                      call.place_id)
       IN IF deleted.raised # NoError
          THEN /\ call' = Done("delete_place", Unhandled(data, deleted.raised))
               /\ UNCHANGED data
          ELSE /\ data' = deleted.data
               /\ call' = Done("delete_place", OK(deleted.data, <<>>))

\* lines 168-169: the request arrives; users = []; the iterator over
\* db.data.items() is made and its first item fetched
get_users_L169 ==
    /\ call.pc \in {"idle", "done"}
    /\ call' = IF data = <<>> THEN Done("get_users", OK(data, <<>>))
               ELSE Iterating("L170", "get_users", <<Item(data, 1)>>,
                              Len(data))
    /\ UNCHANGED data

\* lines 169-178: the loop body, then the next item is fetched: the iterator
\* raises RuntimeError when db.data has changed size; return at the end
get_users_L170 ==
    /\ call.pc = "L170"
    /\ call' = IF Len(data) # call.used
               THEN Done("get_users", Unhandled(data, "RuntimeError"))
               ELSE IF Len(call.users) = call.used
               THEN Done("get_users", OK(data, call.users))
               ELSE [call EXCEPT !.users =
                        Append(call.users, Item(data, Len(call.users) + 1))]
    /\ UNCHANGED data

\* lines 185-186: as get_users, lines 168-169
get_user_data_L186 ==
    /\ call.pc \in {"idle", "done"}
    /\ call' = IF data = <<>> THEN Done("get_user_data", OK(data, <<>>))
               ELSE Iterating("L187", "get_user_data", <<Item(data, 1)>>,
                              Len(data))
    /\ UNCHANGED data

\* lines 186-195: as get_users, lines 169-178
get_user_data_L187 ==
    /\ call.pc = "L187"
    /\ call' = IF Len(data) # call.used
               THEN Done("get_user_data", Unhandled(data, "RuntimeError"))
               ELSE IF Len(call.users) = call.used
               THEN Done("get_user_data", OK(data, call.users))
               ELSE [call EXCEPT !.users =
                        Append(call.users, Item(data, Len(call.users) + 1))]
    /\ UNCHANGED data

Init ==
    /\ data = <<>>
    /\ call = Idle

Next ==
    \/ \E u \in UserIds, g \in GroupNames : add_place_L37(u, g)
    \/ add_place_L41
    \/ \E r \in PlaceResults : add_place_L45(r)
    \/ add_place_L57
    \/ add_place_L59
    \/ \E u \in UserIds, g \in GroupNames, p \in PlaceIds :
          delete_place_L82(u, g, p)
    \/ delete_place_L85
    \/ delete_place_L88
    \/ get_users_L169
    \/ get_users_L170
    \/ get_user_data_L186
    \/ get_user_data_L187
    \/ \E u \in UserIds, g \in GroupNames, r \in PlaceResults :
          Serve(add_place(data, u, g, r))
    \/ \E u \in UserIds, g \in GroupNames, p \in PlaceIds :
          Serve(delete_place(data, u, g, p))
    \/ \E u \in UserIds, q \in QueryNames : Serve(get_place(data, u, q))
    \/ \E u \in UserIds, g \in GroupNames : Serve(add_activity_group(data, u, g))
    \/ \E u \in UserIds, g \in GroupNames : Serve(get_activity_group(data, u, g))
    \/ \E u \in UserIds, g \in GroupNames : Serve(delete_activity_group(data, u, g))
    \/ \E r \in GeocodeResults, uuid \in FreshIds(data) :
          Serve(set_homebase(data, r, uuid))
    \/ \E u \in UserIds, dp \in DailyPlanIds : Serve(get_route(data, u, dp))
    \/ Serve(get_users(data))
    \/ Serve(get_user_data(data))
    \/ \E u \in UserIds, p \in PlaceIds, dp \in DailyPlanIds :
          Serve(add_place_to_daily_plan(data, u, p, dp))
    \/ \E u \in UserIds, p \in PlaceIds :
          Serve(remove_place_from_daily_plan(data, u, p))
    \/ \E u \in UserIds, dp \in DailyPlanIds : Serve(get_daily_plan(data, u, dp))

Spec == Init /\ [][Next]_vars

----------------------------------------------------------------------------
(* Properties *)

Users == Keys(data)
GroupsOf(d, u) == Get(d, u).activity_groups
PlansOf(d, u) == Get(d, u).daily_plans
HasGroup(d, u, g) == Has(d, u) /\ Has(GroupsOf(d, u), g)
\* the places of group g of user u
PlacesIn(d, u, g) == Get(GroupsOf(d, u), g)
\* the place ids user u holds in any activity group
OwnedIds(d, u) ==
    UNION {{PlacesIn(d, u, g)[i].ID : i \in DOMAIN PlacesIn(d, u, g)} :
              g \in Keys(GroupsOf(d, u))}
IdsOf(places) == [i \in DOMAIN places |-> places[i].ID]
IsUserNotFound(out) == out.status = 404 /\ out.detail = UserNotFound
IsGroupNotFound(out) == out.status = 404 /\ out.detail = GroupNotFound

\* the place of the add_place request in flight
CallPlace(c) == Place(c.place_result[1])
\* the step is one of the add_place request in `call`
AddPlaceStep ==
    /\ call' # call
    /\ call.pc \in {"L41", "L45", "L57", "L59"} \/ call'.handler = "add_place"
\* the step is the return of the add_place request in `call`: its response
\* is the success response
AddPlaceReturns ==
    /\ call.pc = "L59"
    /\ call'.pc = "done" /\ call'.status = 200
\* the step creates or removes no group of any user
GroupNamesKept ==
    /\ Keys(data') = Keys(data)
    /\ \A u \in Users : Keys(GroupsOf(data', u)) = Keys(GroupsOf(data, u))

\* C1: every handler that reads or mutates a user's sub-collections answers a
\* user id that is not in the directory with the "User not found" response
\* (404), and leaves the store as it was; get_route is one of these handlers.
C1_UserCheckedFirst ==
    \A u \in UserIds \ Users :
        /\ \A g \in GroupNames :
              /\ \A r \in PlaceResults :
                    /\ IsUserNotFound(add_place(data, u, g, r))
                    /\ add_place(data, u, g, r).data = data
              /\ \A p \in PlaceIds : IsUserNotFound(delete_place(data, u, g, p))
              /\ IsUserNotFound(add_activity_group(data, u, g))
              /\ IsUserNotFound(get_activity_group(data, u, g))
              /\ IsUserNotFound(delete_activity_group(data, u, g))
        /\ \A q \in QueryNames : IsUserNotFound(get_place(data, u, q))
        /\ \A p \in PlaceIds :
              /\ IsUserNotFound(remove_place_from_daily_plan(data, u, p))
              /\ \A dp \in DailyPlanIds :
                    IsUserNotFound(add_place_to_daily_plan(data, u, p, dp))
        /\ \A dp \in DailyPlanIds :
              /\ IsUserNotFound(get_daily_plan(data, u, dp))
              /\ IsUserNotFound(get_route(data, u, dp))

\* C2 (state part): add_place for a user that is not in the directory answers
\* "User not found", also when another user owns a group of that name; for a
\* user that exists and has no group of that name it answers "Activity group
\* not found"; in both cases the store is unchanged.
C2_NotFoundResponses ==
    \A u \in UserIds, g \in GroupNames, r \in PlaceResults :
        LET out == add_place(data, u, g, r)
        IN /\ u \notin Users => IsUserNotFound(out) /\ out.data = data
           /\ (u \in Users /\ ~HasGroup(data, u, g))
                 => IsGroupNotFound(out) /\ out.data = data

\* C2 (step part): the add_place request that runs beside other requests
\* passes its user check only for a user in the directory and else ends with
\* "User not found"; it ends with "Activity group not found" when its
\* existence check finds no group of that name; both leave the store unchanged.
C2_NotFoundSteps ==
    AddPlaceStep =>
        /\ call.pc \in {"idle", "done"} =>
              /\ data' = data
              /\ IF call'.pc = "done" THEN IsUserNotFound(call')
                 ELSE call'.pc = "L41" /\ Has(data, call'.user_id)
        /\ (call.pc = "L41"
              /\ ~HasGroup(data, call.user_id, call.activity_group))
              => /\ data' = data
                 /\ call'.pc = "done" /\ IsGroupNotFound(call')

\* C2: adding a place for a user that is not in the directory fails with
\* NotFound(User), also when another user owns a group of that name; for a
\* user without a group of that name it fails with NotFound(Group); in neither
\* case is a place added to any group.
C2_AddPlaceNotFound == []C2_NotFoundResponses /\ [][C2_NotFoundSteps]_vars

\* a user is absent while another user owns group g with a place in it, and
\* that other user lacks a group h: add_place answers the two not-found cases
C2_Witness ==
    \E u \in UserIds \ Users, v \in Users, g \in GroupNames, h \in GroupNames,
       r \in PlaceResults :
        /\ r # <<>>
        /\ HasGroup(data, v, g) /\ PlacesIn(data, v, g) # <<>>
        /\ ~HasGroup(data, v, h)
        /\ IsUserNotFound(add_place(data, u, g, r))
        /\ IsGroupNotFound(add_place(data, v, h, r))

\* C3: after delete_place(u, g, p) succeeds, get_activity_group(u, g) holds no
\* place of id p, also when p was added to g more than once; and when g holds
\* no place of id p, delete_place succeeds and leaves the store unchanged.
C3_DeleteRemovesPlace ==
    \A u \in Users, g \in GroupNames, p \in PlaceIds :
        HasGroup(data, u, g) =>
            LET out == delete_place(data, u, g, p)
                after == get_activity_group(out.data, u, g)
            IN /\ out.status = 200
               /\ after.status = 200
               /\ \A i \in DOMAIN after.body : after.body[i].ID # p
               /\ (\A i \in DOMAIN PlacesIn(data, u, g) :
                      PlacesIn(data, u, g)[i].ID # p) => out.data = data

\* C4: for an existing user u and plan d (existing or not), after
\* add_place_to_daily_plan(u, p1, d) and then (u, p2, d), get_daily_plan(u, d)
\* returns what it returned before followed by the places of ids p1, p2, in
\* that order, a repeated id appearing twice.
C4_PlanInsertionOrder ==
    \A u \in Users, dp \in DailyPlanIds, p1 \in PlaceIds, p2 \in PlaceIds :
        LET before == IF Has(PlansOf(data, u), dp)
                      THEN IdsOf(get_daily_plan(data, u, dp).body)
                      ELSE <<>>
            one == add_place_to_daily_plan(data, u, p1, dp)
            two == add_place_to_daily_plan(one.data, u, p2, dp)
        IN /\ one.status = 200 /\ two.status = 200
           /\ get_daily_plan(one.data, u, dp).status = 200
           /\ IdsOf(get_daily_plan(one.data, u, dp).body) = before \o <<p1>>
           /\ IdsOf(get_daily_plan(two.data, u, dp).body) = before \o <<p1, p2>>

\* C5: every place reference held in a daily plan of user u is the id of a
\* place that is a member of one of u's own activity groups.
C5_NoDanglingReference ==
    \A u \in Users :
        \A i \in DOMAIN PlansOf(data, u) :
            \A j \in DOMAIN PlansOf(data, u)[i].v :
                PlansOf(data, u)[i].v[j] \in OwnedIds(data, u)

\* C6 (state part): delete_activity_group(u, g) succeeds for an existing
\* user; right after it activity_group_exists(u, g) is false and
\* get_activity_group(u, g) fails with NotFound(Group) and returns no sequence
\* of places, while the user's other groups keep their places.
C6_AfterDelete ==
    \A u \in Users, g \in GroupNames :
        LET out == delete_activity_group(data, u, g)
            exists == db_activity_group_exists(out.data, u, g)
            got == get_activity_group(out.data, u, g)
        IN /\ out.status = 200
           /\ exists.raised = NoError /\ exists.value = FALSE
           /\ db_get_activity_group(out.data, u, g).raised = NotFoundGroup
           /\ got.status # 200 /\ got.raised = NotFoundGroup /\ got.body = <<>>
           /\ \A h \in GroupNames \ {g} :
                 HasGroup(data, u, h) =>
                    /\ HasGroup(out.data, u, h)
                    /\ PlacesIn(out.data, u, h) = PlacesIn(data, u, h)

\* C6 (step part): a group that does not exist comes into existence only by
\* add_activity_group(u, g), so it stays absent until that is called again.
C6_AbsentUntilAdded ==
    \A u \in Users, g \in GroupNames :
        (~HasGroup(data, u, g) /\ HasGroup(data', u, g))
            => data' = add_activity_group(data, u, g).data

\* C6: after delete_activity_group(u, g) succeeds and until
\* add_activity_group(u, g) is called again, the group does not exist and
\* get_activity_group(u, g) fails with NotFound(Group); the user's other
\* groups keep their places.
C6_DeletedGroupNotFound == []C6_AfterDelete /\ [][C6_AbsentUntilAdded]_vars

\* a user holds two groups, one of them with a place: deleting the other
\* makes reading it fail with NotFound(Group)
C6_Witness ==
    \E u \in Users, g \in GroupNames, h \in GroupNames :
        /\ g # h
        /\ HasGroup(data, u, g)
        /\ HasGroup(data, u, h) /\ PlacesIn(data, u, h) # <<>>
        /\ PlacesIn(delete_activity_group(data, u, g).data, u, h)
              = PlacesIn(data, u, h)
        /\ get_activity_group(delete_activity_group(data, u, g).data, u, g).raised
              = NotFoundGroup

\* C8 (state part): right after set_homebase geocoded (lat, lon) and returned
\* u, get_user(u) succeeds with home (lat, lon), and the user listing, run
\* with no request in between, shows it.
C8_HomeRoundTrip ==
    \A r \in GeocodeResults \ {<<>>}, uuid \in FreshIds(data) :
        LET out == set_homebase(data, r, uuid)
            got == db_get_user(out.data, out.body[1])
        IN /\ got.raised = NoError
           /\ got.value.home = r[1]
           /\ \E i \in DOMAIN get_users(out.data).body :
                 get_users(out.data).body[i] =
                    [user_id |-> out.body[1], homebase |-> r[1]]

\* C8 (step part): no step removes a user or changes a user's home.
C8_HomeStable ==
    \A u \in Users :
        /\ Has(data', u)
        /\ db_get_user(data', u).value.home = db_get_user(data, u).value.home

\* C8 (step part, the listing): the listing request that runs beside other
\* requests collects, item by item, the users with their stored homes; it
\* returns the whole directory, or ends with the iterator's RuntimeError when
\* a user was created since its loop began.
C8_ListingSteps ==
    (call' # call /\ call.pc \in {"L170", "L187"}) =>
        /\ data' = data
        /\ call'.pc # "done" =>
              /\ Len(call'.users) = Len(call.users) + 1
              /\ \A i \in DOMAIN call'.users :
                    call'.users[i] =
                       [user_id |-> data[i].k,
                        homebase |-> db_get_user(data, data[i].k).value.home]
        /\ call'.pc = "done" =>
              IF Len(data) = call.used
              THEN call'.status = 200 /\ call.users = get_users(data).body
              ELSE call'.status = 500 /\ Len(data) > call.used

\* C8: once createUser(lat, lon) has returned u, getUser(u) succeeds with home
\* (lat, lon), at once and in every later state, whatever place, group, plan
\* or createUser operations follow.
C8_UserPersists ==
    /\ []C8_HomeRoundTrip
    /\ [][C8_HomeStable]_vars
    /\ [][C8_ListingSteps]_vars

\* two users with different homes, the first of which has since got a group
\* and a daily plan with a reference
C8_Witness ==
    /\ Len(data) = 2
    /\ data[1].v.home # data[2].v.home
    /\ db_get_user(data, data[1].k).value.home = data[1].v.home
    /\ \E g \in GroupNames : HasGroup(data, data[1].k, g)
    /\ \E dp \in DailyPlanIds :
          /\ Has(PlansOf(data, data[1].k), dp)
          /\ Get(PlansOf(data, data[1].k), dp) # <<>>

\* two names are equal ignoring letter case
SameIgnoringCase(a, b) ==
    /\ Len(a) = Len(b)
    /\ \A i \in DOMAIN a :
          a[i] = b[i] \/ {a[i], b[i]} \in {{"P", "p"}, {"A", "a"}, {"Z", "z"}}

\* C9: for an existing user u and query name q, get_place returns a place
\* exactly when one of u's places has a name equal to q ignoring letter case,
\* and then the first such place in the flattened order of get_places(u);
\* otherwise it answers "Place not found for this user"; the place returned
\* is a member of one of u's own groups.
C9_PlaceByName ==
    \A u \in Users, q \in QueryNames :
        LET flat == db_get_places(data, u).value
            matches == {i \in DOMAIN flat : SameIgnoringCase(flat[i].name, q)}
            out == get_place(data, u, q)
        IN IF matches = {}
           THEN out.status = 404 /\ out.detail = PlaceNotFoundForUser
           ELSE /\ out.status = 200
                /\ out.body =
                      <<flat[CHOOSE i \in matches : \A j \in matches : i <= j]>>
                /\ \E g \in Keys(GroupsOf(data, u)) :
                      \E i \in DOMAIN PlacesIn(data, u, g) :
                          PlacesIn(data, u, g)[i] = out.body[1]

\* a user holds p2 ("pA") and then p1 ("Pa"): the query "Pa", spelled as
\* the second place is, returns the first
C9_Witness ==
    \E u \in Users :
        LET flat == db_get_places(data, u).value
        IN /\ Len(flat) = 2
           /\ flat[1].name = <<"p", "A">> /\ flat[2].name = <<"P", "a">>
           /\ get_place(data, u, <<"P", "a">>).body = <<flat[1]>>
           /\ get_place(data, u, <<"z", "a">>).status = 404

\* C10 as stated: with a delete_activity_group request for the same user and
\* group running beside it, add_place reports success only if the group exists
\* when it returns (and holds the place; the existence alone is stated here,
\* which no request but delete_activity_group undoes), and it never re-creates
\* the group or appends to a group that does not exist.
C10_SuccessMeansMember ==
    [][AddPlaceStep =>
          /\ AddPlaceReturns
                => HasGroup(data', call.user_id, call.activity_group)
          /\ GroupNamesKept
          /\ data' # data => HasGroup(data, call.user_id, call.activity_group)
      ]_vars

\* C10 as amended: add_place reports success only after its store call
\* appended its place to the group, which existed at that store call; when
\* the group does not exist at the store call (deleted after the existence
\* check) the store call fails with NotFound(Group), the store is unchanged
\* and the request ends with an unhandled error; no step of add_place creates
\* or removes a group, and only the store call changes the store.
C10_SuccessMeansAppended ==
    [][AddPlaceStep =>
          /\ (call'.pc = "done" /\ call'.status = 200) => call.pc = "L59"
          /\ call'.pc = "L59" =>
                /\ call.pc = "L57"
                /\ HasGroup(data, call.user_id, call.activity_group)
                /\ PlacesIn(data', call.user_id, call.activity_group) =
                      Append(PlacesIn(data, call.user_id, call.activity_group),
                             CallPlace(call))
          /\ (call.pc = "L57"
                /\ ~HasGroup(data, call.user_id, call.activity_group))
                => /\ data' = data
                   /\ call'.pc = "done" /\ call'.status = 500
                   /\ call'.raised = NotFoundGroup
          /\ GroupNamesKept
          /\ data' # data => call'.pc = "L59"
      ]_vars

\* the group was deleted between add_place's existence check and its store
\* call: the request has ended with the store's NotFound(Group), unhandled
C10_Witness ==
    /\ call.pc = "done" /\ call.handler = "add_place"
    /\ call.status = 500 /\ call.raised = NotFoundGroup

====
